---------------------------- MODULE Spec2Model ----------------------------
(***************************************************************************)
(* A model of capstone_project.ipynb: the cleaning of the immigration      *)
(* table (Spark), the SAS date conversion, and the weather, demographic    *)
(* and airport dimension builders (pandas).                                *)
(*                                                                         *)
(* Data representation                                                     *)
(*   - a nullable cell is a set with at most one element: {} is null       *)
(*     (Spark null, pandas NaN/None), {x} holds x;                         *)
(*   - a Spark double is [k, h]: k = "num" with h the value in halves      *)
(*     (h = 3 is 1.5), or k = "nan", "inf", "ninf";                        *)
(*   - a string is a sequence of one-character strings;                    *)
(*   - a Spark table is [cols, rows] with rows a bag (Spark guarantees no  *)
(*     row order) of functions from cols to cells;                         *)
(*   - a pandas table is a sequence of records (position = row order).     *)
(***************************************************************************)
EXTENDS Integers, Sequences, FiniteSets, Bags, TLC

VARIABLES
    df_sas,             \* the raw immigration table
    df_sas_clean,       \* df_sas_clean_a .. df_sas_clean_e / df_immigration_dwh
    empty_cols,         \* the columns found over the null threshold
    pc_sas,             \* next cell of the immigration cleaner
    days,               \* the arguments of two calls of date_add_
    date,               \* the results of the two calls
    pc_date,
    df_weather,         \* the weather table
    df_cntyl,           \* the country lookup
    df_weather_dwh,     \* the weather dimension
    i94cntyl_in_sas,    \* the codes cell 31 keeps
    pc_weather,         \* next cell of the weather dimension builder
    df_demo,            \* the demographic table
    df_demo_dwh,        \* the state summary
    df_demo_race_dwh,   \* the race distribution
    pc_demo,
    df_port,            \* the port lookup
    df_airport,         \* the raw airport table
    df_airport_dwh,     \* the airport dimension
    df_airport_dwh_outliers,
    pc_airport,
    lines,              \* the lines of the descriptor file
    df_mode,            \* the transport mode lookup
    df_addr,            \* the state lookup
    df_visa,            \* the visa lookup
    raised,             \* the exception that ended the parser cell, if any
    pc_parser           \* next statement group of the parser cell

sasVars     == <<df_sas, df_sas_clean, empty_cols, pc_sas>>
dateVars    == <<days, date, pc_date>>
weatherVars == <<df_weather, df_cntyl, df_weather_dwh, i94cntyl_in_sas, pc_weather>>
demoVars    == <<df_demo, df_demo_dwh, df_demo_race_dwh, pc_demo>>
airportVars == <<df_port, df_airport, df_airport_dwh, df_airport_dwh_outliers, pc_airport>>
parserVars  == <<lines, df_mode, df_addr, df_visa, raised, pc_parser>>
notSasVars  == <<dateVars, weatherVars, demoVars, airportVars, parserVars>>
vars        == <<sasVars, dateVars, weatherVars, demoVars, airportVars, parserVars>>

-----------------------------------------------------------------------------
(* Nullable cells, doubles, strings, bags *)

Null == {}

Some(x) == {x}

Value(cell) == CHOOSE x \in cell : TRUE

Dbl(h) == [k |-> "num", h |-> h]

NaN == [k |-> "nan", h |-> 0]

Str_NaN == <<"N", "a", "N">>

\* All bags over the elements of S holding at most n elements in total.
RECURSIVE BagsUpTo(_, _)
BagsUpTo(S, n) ==
    IF S = {} THEN {EmptyBag}
    ELSE LET x == CHOOSE y \in S : TRUE
         IN  UNION { { IF c = 0 THEN b ELSE (x :> c) @@ b
                       : b \in BagsUpTo(S \ {x}, n - c) }
                     : c \in 0..n }

\* All sequences over S of length at most n.
SeqsUpTo(S, n) == UNION { [1..m -> S] : m \in 0..n }

\* The rows of bag B that are in S, with their multiplicities.
BagRestrict(B, S) == [r \in DOMAIN B \cap S |-> B[r]]

-----------------------------------------------------------------------------
(* datetime: the proleptic Gregorian calendar of Python's datetime module, *)
(* which date_add_ uses through strptime and datetime + timedelta.         *)

MINYEAR == 1

MAXYEAR == 9999

MAXORDINAL == 3652059

MAXDELTADAYS == 999999999

DAYS_IN_MONTH == <<31, 28, 31, 30, 31, 30, 31, 31, 30, 31, 30, 31>>

DAYS_BEFORE_MONTH == <<0, 31, 59, 90, 120, 151, 181, 212, 243, 273, 304, 334>>

is_leap(year) == year % 4 = 0 /\ (year % 100 # 0 \/ year % 400 = 0)

days_before_year(year) ==
    LET y == year - 1
    IN  y * 365 + (y \div 4) - (y \div 100) + (y \div 400)

days_before_month(year, month) ==
    DAYS_BEFORE_MONTH[month] + (IF month > 2 /\ is_leap(year) THEN 1 ELSE 0)

ymd2ord(year, month, day) ==
    days_before_year(year) + days_before_month(year, month) + day

ord2ymd(ordinal) ==
    LET n0   == ordinal - 1
        n400 == n0 \div 146097
        r400 == n0 % 146097
        n100 == r400 \div 36524
        r100 == r400 % 36524
        n4   == r100 \div 1461
        r4   == r100 % 1461
        n1   == r4 \div 365
        n    == r4 % 365
        year == n400 * 400 + 1 + n100 * 100 + n4 * 4 + n1
        leapyear == n1 = 3 /\ (n4 # 24 \/ n100 = 3)
        m0   == (n + 50) \div 32
        p0   == DAYS_BEFORE_MONTH[m0] + (IF m0 > 2 /\ leapyear THEN 1 ELSE 0)
        month == IF p0 > n THEN m0 - 1 ELSE m0
        preceding ==
            IF p0 > n
            THEN p0 - (DAYS_IN_MONTH[month] + (IF month = 2 /\ leapyear THEN 1 ELSE 0))
            ELSE p0
    IN  IF n1 = 4 \/ n100 = 4
        THEN [err |-> "", year |-> year - 1, month |-> 12, day |-> 31]
        ELSE [err |-> "", year |-> year, month |-> month, day |-> n - preceding + 1]

Raised(e) == [err |-> e, year |-> 0, month |-> 0, day |-> 0]

DigitValue(c) ==
    CASE c = "0" -> 0 [] c = "1" -> 1 [] c = "2" -> 2 [] c = "3" -> 3 [] c = "4" -> 4
      [] c = "5" -> 5 [] c = "6" -> 6 [] c = "7" -> 7 [] c = "8" -> 8 [] c = "9" -> 9

RECURSIVE ParseInt(_)
ParseInt(s) ==
    IF s = <<>> THEN 0
    ELSE 10 * ParseInt(SubSeq(s, 1, Len(s) - 1)) + DigitValue(s[Len(s)])

\* datetime.strptime(text, "%Y-%m-%d") for a text of the form YYYY-MM-DD
strptime(text) ==
    [err |-> "", year  |-> ParseInt(SubSeq(text, 1, 4)),
                 month |-> ParseInt(SubSeq(text, 6, 7)),
                 day   |-> ParseInt(SubSeq(text, 9, 10))]

\* A faulty variant of EpochText: the Unix epoch for the SAS epoch.
EpochTextUnix == <<"1", "9", "7", "0", "-", "0", "1", "-", "0", "1">>

EpochText == <<"1", "9", "6", "0", "-", "0", "1", "-", "0", "1">>

\* timedelta(d): None is a TypeError, a magnitude over 999999999 days an
\* OverflowError.
timedelta(cell) ==
    IF cell = Null THEN Raised("TypeError")
    ELSE IF Value(cell) > MAXDELTADAYS \/ Value(cell) < -MAXDELTADAYS
         THEN Raised("OverflowError")
         ELSE [err |-> "", days |-> Value(cell)]

\* datetime + timedelta: through the ordinal, OverflowError outside
\* MINYEAR..MAXYEAR.
datetime_add(d, delta) ==
    LET ordinal == ymd2ord(d.year, d.month, d.day) + delta.days
    IN  IF ordinal >= 1 /\ ordinal <= MAXORDINAL
        THEN ord2ymd(ordinal)
        ELSE Raised("OverflowError")

\* date_add_(days); the argument is a nullable integer cell (the udf is
\* called with None for a null).
date_add_(cell) ==
    LET epoch == strptime(EpochText)
        delta == timedelta(cell)
    IN  IF delta.err # "" THEN Raised(delta.err)
        ELSE datetime_add(epoch, delta)

-----------------------------------------------------------------------------
(* The immigration table (Spark) *)

\* The columns of the model; the source table has 28, of which the cleaner
\* names cicid, the 13 cast columns, i94yr and i94mon.
SasCols == {"cicid", "i94yr", "i94mon", "i94cit", "i94res", "arrdate", "depdate",
            "occup"}

DoubleCols == SasCols \ {"occup"}

\* The columns cell 16 casts to integer (those of them the model holds).
CastCols == {"cicid", "i94yr", "i94mon", "i94cit", "i94res", "arrdate", "depdate"}

DateCols == {"arrdate", "depdate"}

INT_MAX == 2147483647

INT_MIN == -INT_MAX - 1

\* isnan(c): on a string column Spark casts the text to double first.
isnan(c, cell) ==
    /\ cell # Null
    /\ IF c \in DoubleCols THEN Value(cell).k = "nan" ELSE Value(cell) = Str_NaN

isNull(cell) == cell = Null

\* count(when(isnan(c) | col(c).isNull(), c)): the rows of the table whose
\* cell in column c is null or NaN.
count_when_null(tbl, c) ==
    BagCardinality(BagRestrict(tbl.rows,
                               {r \in DOMAIN tbl.rows : isnan(c, r[c]) \/ isNull(r[c])}))

ThresholdNum == 9

ThresholdDen == 10

\* A faulty variant of OverThreshold: >= for >.
OverThresholdGe(cnt, total) == cnt * ThresholdDen >= ThresholdNum * total

\* df_sas_nulls[c][0] > 0.9 for the quotient cnt / total of two row counts
\* (total > 0).
OverThreshold(cnt, total) == cnt * ThresholdDen > ThresholdNum * total

\* DataFrame.drop(*names): names that are no column are ignored.
DropCols(tbl, names) ==
    LET keep == tbl.cols \ names
    IN  [cols |-> keep,
         rows |-> BagOfAll(LAMBDA r : [c \in keep |-> r[c]], tbl.rows)]

\* A faulty variant of DropnaKeeps: no row is dropped.
DropnaKeepsAll(r) == TRUE

\* dropna(how='all', subset=['cicid']): a row goes when all the subset
\* columns are null or NaN (NaN counts as null for a double column).
DropnaKeeps(r) == r["cicid"] # Null /\ Value(r["cicid"]).k # "nan"

\* Column.cast('integer') of a double (Spark 2, not ANSI): null stays null,
\* NaN becomes 0, the fraction is cut off, the value saturates at 32 bits.
CastInteger(cell) ==
    IF cell = Null THEN Null
    ELSE LET x == Value(cell)
             t == IF x.h >= 0 THEN x.h \div 2 ELSE -((-x.h) \div 2)
         IN  Some(CASE x.k = "nan"  -> 0
                    [] x.k = "inf"  -> INT_MAX
                    [] x.k = "ninf" -> INT_MIN
                    [] OTHER -> IF t > INT_MAX THEN INT_MAX
                                ELSE IF t < INT_MIN THEN INT_MIN ELSE t)

\* withColumn(c, col(c).cast('integer')) for every cast column, on every row.
CastColumns(tbl) ==
    [cols |-> tbl.cols,
     rows |-> BagOfAll(LAMBDA r : [c \in tbl.cols |->
                                     IF c \in CastCols THEN CastInteger(r[c]) ELSE r[c]],
                       tbl.rows)]

\* date_add_udf on a cell: the cell then holds what date_add_ returns or
\* raises for it (Spark evaluates the column when the table is collected).
date_add_udf(cell) == Some(date_add_(cell))

\* withColumn(c, date_add_udf(c)) for arrdate and depdate, on every row.
DateColumns(tbl) ==
    [cols |-> tbl.cols,
     rows |-> BagOfAll(LAMBDA r : [c \in tbl.cols |->
                                     IF c \in DateCols THEN date_add_udf(r[c]) ELSE r[c]],
                       tbl.rows)]

NoTable == [cols |-> {}, rows |-> EmptyBag]

\* Cell 14: the null fractions over df_sas, empty_cols, df_sas_clean_a.
\* On an empty table the quotient is null, which Python 3 refuses to compare
\* (TypeError) and which otherwise compares false.
CleanA ==
    /\ pc_sas = "clean_a"
    /\ LET total == BagCardinality(df_sas.rows)
           over  == {c \in df_sas.cols : OverThreshold(count_when_null(df_sas, c), total)}
       IN  IF total = 0
           THEN \E raises \in BOOLEAN :
                  /\ empty_cols' = {}
                  /\ df_sas_clean' = df_sas
                  /\ pc_sas' = IF raises THEN "error" ELSE "clean_b"
           ELSE /\ empty_cols' = over
                /\ df_sas_clean' = DropCols(df_sas, over)
                /\ pc_sas' = "clean_b"
    /\ UNCHANGED <<df_sas, notSasVars>>

\* Cell 15: df_sas_clean_b; naming a column the table lacks raises.
CleanB ==
    /\ pc_sas = "clean_b"
    /\ IF "cicid" \notin df_sas_clean.cols
       THEN /\ pc_sas' = "error"
            /\ UNCHANGED df_sas_clean
       ELSE /\ df_sas_clean' = [df_sas_clean EXCEPT
                                   !.rows = BagRestrict(df_sas_clean.rows,
                                                       {r \in DOMAIN df_sas_clean.rows : DropnaKeeps(r)})]
            /\ pc_sas' = "clean_c"
    /\ UNCHANGED <<df_sas, empty_cols, notSasVars>>

\* Cell 16: df_sas_clean_c; df_sas_clean_b["c"] raises for a missing column.
CleanC ==
    /\ pc_sas = "clean_c"
    /\ IF ~(CastCols \subseteq df_sas_clean.cols)
       THEN /\ pc_sas' = "error"
            /\ UNCHANGED df_sas_clean
       ELSE /\ df_sas_clean' = CastColumns(df_sas_clean)
            /\ pc_sas' = "clean_d"
    /\ UNCHANGED <<df_sas, empty_cols, notSasVars>>

\* Cell 17, first statement: df_sas_clean_d.
CleanD ==
    /\ pc_sas = "clean_d"
    /\ df_sas_clean' = DateColumns(df_sas_clean)
    /\ pc_sas' = "clean_e"
    /\ UNCHANGED <<df_sas, empty_cols, notSasVars>>

\* Cell 17, last statement: df_sas_clean_e, which cell 27 names
\* df_immigration_dwh.
CleanE ==
    /\ pc_sas = "clean_e"
    /\ df_sas_clean' = DropCols(df_sas_clean, {"i94yr", "i94mon"})
    /\ pc_sas' = "done"
    /\ UNCHANGED <<df_sas, empty_cols, notSasVars>>

Cleaner == CleanA \/ CleanB \/ CleanC \/ CleanD \/ CleanE

-----------------------------------------------------------------------------
(* Inputs of the immigration cleaner *)

MaxSasRows == 3

MaxNullRows == 11

Yr2016 == Some(Dbl(4032))

Mon4 == Some(Dbl(8))

Code582 == Some(Dbl(1164))

Day20545 == Some(Dbl(41090))

\* Rows that differ in the identity (missing, NaN, 1.0, 1.5, 2.0), the
\* departure day and a string column.
SasRowsId ==
    [cicid   : {Null, Some(NaN), Some(Dbl(2)), Some(Dbl(3)), Some(Dbl(4))},
     i94yr   : {Yr2016},
     i94mon  : {Mon4},
     i94cit  : {Code582},
     i94res  : {Code582},
     arrdate : {Day20545},
     depdate : {Null, Some(Dbl(41101))},
     occup   : {Null, Some(<<"x">>)}]

\* Rows for the null fractions: a double column and a string column that
\* may be missing.
SasRowsNulls ==
    [cicid   : {Null, Some(NaN), Some(Dbl(2))},
     i94yr   : {Yr2016},
     i94mon  : {Mon4},
     i94cit  : {Code582},
     i94res  : {Code582},
     arrdate : {Day20545},
     depdate : {Some(Dbl(41101))},
     occup   : {Null, Some(<<"x">>)}]

SasTables(rowset, n) == { [cols |-> SasCols, rows |-> b] : b \in BagsUpTo(rowset, n) }

DateIdle ==
    /\ days = <<>>
    /\ date = <<>>
    /\ pc_date = "idle"

WeatherIdle ==
    /\ df_weather = <<>>
    /\ df_cntyl = <<>>
    /\ df_weather_dwh = <<>>
    /\ i94cntyl_in_sas = {}
    /\ pc_weather = "idle"

DemoIdle ==
    /\ df_demo = <<>>
    /\ df_demo_dwh = <<>>
    /\ df_demo_race_dwh = <<>>
    /\ pc_demo = "idle"

AirportIdle ==
    /\ df_port = <<>>
    /\ df_airport = <<>>
    /\ df_airport_dwh = <<>>
    /\ df_airport_dwh_outliers = <<>>
    /\ pc_airport = "idle"

\* The parser cell is not part of the run: its tables are inputs.
ParserIdle ==
    /\ lines = <<>>
    /\ df_mode = <<>>
    /\ df_addr = <<>>
    /\ df_visa = <<>>
    /\ raised = ""
    /\ pc_parser = "idle"

Init ==
    /\ df_sas \in SasTables(SasRowsId, MaxSasRows) \cup SasTables(SasRowsNulls, MaxNullRows)
    /\ df_sas_clean = NoTable
    /\ empty_cols = {}
    /\ pc_sas = "clean_a"
    /\ DateIdle
    /\ WeatherIdle
    /\ DemoIdle
    /\ AirportIdle
    /\ ParserIdle

Next == Cleaner

Spec == Init /\ [][Next]_vars

-----------------------------------------------------------------------------
(* Calls of date_add_ *)

Window == 2

\* Offsets around the epoch, a leap day, a year's end, the leap day of 2000,
\* the missing leap day of 2100, the first and last day datetime holds and
\* the largest timedelta; and the two ends of a 32-bit integer.
DayCentres == {0, 59, 366, 14669, 51193, -715509, 2936549, -999999999, 999999999}

DayDom == UNION { (c - Window)..(c + Window) : c \in DayCentres } \cup {INT_MIN, INT_MAX}

SasIdle ==
    /\ df_sas = NoTable
    /\ df_sas_clean = NoTable
    /\ empty_cols = {}
    /\ pc_sas = "idle"

InitDate ==
    /\ days \in ({Null} \cup {Some(d) : d \in DayDom}) \X ({Null} \cup {Some(d) : d \in DayDom})
    /\ date = <<>>
    /\ pc_date = "call"
    /\ SasIdle
    /\ WeatherIdle
    /\ DemoIdle
    /\ AirportIdle
    /\ ParserIdle

Call ==
    /\ pc_date = "call"
    /\ date' = <<date_add_(days[1]), date_add_(days[2])>>
    /\ pc_date' = "returned"
    /\ UNCHANGED <<days, sasVars, weatherVars, demoVars, airportVars, parserVars>>

NextDate == Call

SpecDate == InitDate /\ [][NextDate]_vars

-----------------------------------------------------------------------------
(* Claims about the immigration cleaner, checked under Spec *)

Cleaned == pc_sas = "done"

\* The cicid cells of a table, one per row (a bag).
CicidBag(tbl) == BagOfAll(LAMBDA r : r["cicid"], tbl.rows)

\* C1: after the cleaner has run, cicid is unique across the rows of the
\* cleaned immigration table: no two rows carry the same cicid.
C1_CicidUnique ==
    Cleaned => \A id \in BagToSet(CicidBag(df_sas_clean)) :
                  CopiesIn(id, CicidBag(df_sas_clean)) = 1

\* A cicid is present when it is neither null nor NaN.
Present(cell) == cell # Null /\ Value(cell).k # "nan"

PresentRows(tbl) ==
    BagCardinality(BagRestrict(tbl.rows, {r \in DOMAIN tbl.rows : Present(r["cicid"])}))

HoldsValue(c, cell) ==
    /\ cell # Null
    /\ IF c \in DoubleCols THEN Value(cell).k # "nan" ELSE Value(cell) # Str_NaN

ValueRows(c) ==
    BagCardinality(BagRestrict(df_sas.rows, {r \in DOMAIN df_sas.rows : HoldsValue(c, r[c])}))

\* The columns whose null-or-NaN fraction over the original table is
\* strictly greater than 9/10: fewer than one row in ten holds a value.
MostlyNull == {c \in SasCols : 10 * ValueRows(c) < BagCardinality(df_sas.rows)}

\* C3: cell 14 drops a column if and only if its null-or-NaN fraction over
\* the original table is strictly greater than 0.9 (a fraction of exactly 0.9
\* keeps it), and until the year/month drop no other column goes.
C3_DropsIffOverThreshold ==
    /\ pc_sas # "clean_a" => empty_cols = MostlyNull
    /\ pc_sas \in {"clean_b", "clean_c", "clean_d", "clean_e"} =>
          df_sas_clean.cols = SasCols \ MostlyNull
    /\ Cleaned => df_sas_clean.cols = (SasCols \ MostlyNull) \ {"i94yr", "i94mon"}

\* A column at exactly 9/10 is kept while another, over 9/10, is dropped.
C3_Witness ==
    /\ pc_sas = "clean_b"
    /\ BagCardinality(df_sas.rows) = 10
    /\ ValueRows("occup") = 1
    /\ "occup" \in df_sas_clean.cols
    /\ ValueRows("cicid") = 0
    /\ "cicid" \notin df_sas_clean.cols

-----------------------------------------------------------------------------
(* Claims about date_add_, checked under SpecDate *)

Returned == pc_date = "returned"

\* The calendar, stated without ordinals.
LeapYear(y) == (y % 4 = 0 /\ y % 100 # 0) \/ y % 400 = 0

MonthLength(y, m) ==
    IF m = 2 THEN (IF LeapYear(y) THEN 29 ELSE 28)
    ELSE IF m \in {4, 6, 9, 11} THEN 30 ELSE 31

NextDay(d) ==
    IF d.day < MonthLength(d.year, d.month) THEN [d EXCEPT !.day = d.day + 1]
    ELSE IF d.month < 12 THEN [d EXCEPT !.month = d.month + 1, !.day = 1]
    ELSE [d EXCEPT !.year = d.year + 1, !.month = 1, !.day = 1]

Earlier(a, b) ==
    \/ a.year < b.year
    \/ a.year = b.year /\ a.month < b.month
    \/ a.year = b.year /\ a.month = b.month /\ a.day < b.day

\* The offsets whose date lies in datetime's range, 0001-01-01 to 9999-12-31.
InRange(cell) == cell # Null /\ Value(cell) >= -715509 /\ Value(cell) <= 2936549

\* C4 as claimed: every integer day-offset is mapped to a calendar date.
C4_EveryOffsetMapsToADate ==
    Returned => \A i \in {1, 2} : days[i] # Null => date[i].err = ""

\* C4 as amended: an offset d from -715509 to 2936549 is mapped to the date
\* d days after 1960-01-01 (0 to 1960-01-01, 1 to 1960-01-02, d + 1 to the
\* day after the date of d, a smaller offset to an earlier date); any other
\* integer offset raises OverflowError and yields no date, so nothing wraps.
C4_DateAdd ==
    Returned =>
      /\ \A i \in {1, 2} :
            /\ InRange(days[i]) =>
                  /\ date[i].err = ""
                  /\ date[i].year \in MINYEAR..MAXYEAR
                  /\ date[i].month \in 1..12
                  /\ date[i].day \in 1..MonthLength(date[i].year, date[i].month)
            /\ (days[i] # Null /\ ~InRange(days[i])) => date[i] = Raised("OverflowError")
            /\ days[i] = Some(0) => date[i] = [err |-> "", year |-> 1960, month |-> 1, day |-> 1]
            /\ days[i] = Some(1) => date[i] = [err |-> "", year |-> 1960, month |-> 1, day |-> 2]
      /\ (InRange(days[1]) /\ InRange(days[2])) =>
            /\ Value(days[2]) = Value(days[1]) + 1 => date[2] = NextDay(date[1])
            /\ Value(days[1]) < Value(days[2]) => Earlier(date[1], date[2])
            /\ Value(days[1]) = Value(days[2]) => date[1] = date[2]

C4_Witness ==
    /\ Returned
    /\ days = <<Some(51193), Some(51194)>>
    /\ date[1] = [err |-> "", year |-> 2100, month |-> 2, day |-> 28]
    /\ date[2] = [err |-> "", year |-> 2100, month |-> 3, day |-> 1]

-----------------------------------------------------------------------------
(* pandas string methods *)

LowerLetters == <<"a", "b", "c", "d", "e", "f", "g", "h", "i", "j", "k", "l", "m",
                  "n", "o", "p", "q", "r", "s", "t", "u", "v", "w", "x", "y", "z">>

UpperLetters == <<"A", "B", "C", "D", "E", "F", "G", "H", "I", "J", "K", "L", "M",
                  "N", "O", "P", "Q", "R", "S", "T", "U", "V", "W", "X", "Y", "Z">>

UpperChar(c) ==
    IF \E i \in DOMAIN LowerLetters : LowerLetters[i] = c
    THEN UpperLetters[CHOOSE i \in DOMAIN LowerLetters : LowerLetters[i] = c]
    ELSE c

\* Series.str.upper(): a missing value stays missing.
str_upper(cell) ==
    IF cell = Null THEN Null
    ELSE Some([i \in DOMAIN Value(cell) |-> UpperChar(Value(cell)[i])])

\* Series.astype(str): a missing value (NaN) becomes the text 'nan'.
astype_str(cell) == IF cell = Null THEN Some(<<"n", "a", "n">>) ELSE cell

\* All orders in which the elements of S can come.
Orders(S) == { s \in [1..Cardinality(S) -> S] : \A i, j \in DOMAIN s : s[i] = s[j] => i = j }

RECURSIVE Flatten(_)
Flatten(ss) == IF ss = <<>> THEN <<>> ELSE Head(ss) \o Flatten(Tail(ss))

-----------------------------------------------------------------------------
(* The weather dimension builder *)

\* Cell 21: the country texts in upper case, rows without a temperature
\* dropped, the lookup's country texts in upper case.
WeatherPrep ==
    /\ pc_weather = "prep"
    /\ pc_sas = "done"
    /\ df_weather' =
          SelectSeq([i \in DOMAIN df_weather |->
                        [df_weather[i] EXCEPT !.country = astype_str(str_upper(@))]],
                    LAMBDA w : w.average_temperature # Null)
    /\ df_cntyl' = [i \in DOMAIN df_cntyl |->
                        [df_cntyl[i] EXCEPT !.country = astype_str(str_upper(@))]]
    /\ pc_weather' = "merge"
    /\ UNCHANGED <<df_weather_dwh, i94cntyl_in_sas, sasVars, dateVars, demoVars, airportVars,
                   parserVars>>

\* pd.merge(left, right, on 'country', how='left') for one left row: one
\* output row per right row with the same key, in the right table's order,
\* or one row with a missing i94cntyl when there is none.
MergeCountry(w, right) ==
    LET hits == SelectSeq(right, LAMBDA l : l.country = w.country)
    IN  IF hits = <<>>
        THEN << [country |-> w.country, average_temperature |-> w.average_temperature,
                 i94cntyl |-> Null] >>
        ELSE [j \in DOMAIN hits |->
                 [country |-> w.country, average_temperature |-> w.average_temperature,
                  i94cntyl |-> Some(hits[j].i94cntyl)]]

\* Cell 29
WeatherMerge ==
    /\ pc_weather = "merge"
    /\ df_weather_dwh' = Flatten([i \in DOMAIN df_weather |-> MergeCountry(df_weather[i], df_cntyl)])
    /\ pc_weather' = "filter"
    /\ UNCHANGED <<df_weather, df_cntyl, i94cntyl_in_sas, sasVars, dateVars, demoVars, airportVars,
                   parserVars>>

\* select(c).distinct(): the distinct cells of column c, null included.
Distinct(tbl, c) == { r[c] : r \in BagToSet(tbl.rows) }

\* Series + Series: the element-wise sum of the two columns aligned on their
\* positions; a position one side lacks, or a null on either side, gives NaN.
\* set(...), then the NaN dropped and int() applied. (Country codes are far
\* from the 32-bit limits, so the sum is the exact one.)
SeriesSum(a, b) ==
    { Value(a[i]) + Value(b[i]) :
        i \in {j \in DOMAIN a \cap DOMAIN b : a[j] # Null /\ b[j] # Null} }

\* Cell 31: distinct() returns its rows in no fixed order.
WeatherFilter ==
    /\ pc_weather = "filter"
    /\ \E a \in Orders(Distinct(df_sas_clean, "i94cit")),
          b \in Orders(Distinct(df_sas_clean, "i94res")) :
          /\ i94cntyl_in_sas' = SeriesSum(a, b)
          /\ df_weather_dwh' =
                SelectSeq(SelectSeq(df_weather_dwh, LAMBDA w : w.i94cntyl # Null),
                          LAMBDA w : Value(w.i94cntyl) \in SeriesSum(a, b))
    /\ pc_weather' = "done"
    /\ UNCHANGED <<df_weather, df_cntyl, sasVars, dateVars, demoVars, airportVars, parserVars>>

WeatherBuilder == WeatherPrep \/ WeatherMerge \/ WeatherFilter

MaxCodeRows == 2

MaxCntyl == 2

MaxWeather == 2

France == <<"F", "r", "a", "n", "c", "e">>

FRANCE == <<"F", "R", "A", "N", "C", "E">>

\* Immigration rows that differ in the origin and the residence country
\* (missing, 291.0, 582.0).
SasRowsCodes ==
    [cicid   : {Some(Dbl(2))},
     i94yr   : {Yr2016},
     i94mon  : {Mon4},
     i94cit  : {Null, Some(Dbl(582)), Code582},
     i94res  : {Null, Some(Dbl(582)), Code582},
     arrdate : {Day20545},
     depdate : {Some(Dbl(41101))},
     occup   : {Some(<<"x">>)}]

\* Lookup rows as the parser leaves them: an integer code, and a country text
\* in upper case or missing.
CntylRows == [i94cntyl : {582, 873}, country : {Null, Some(FRANCE)}]

WeatherRows == [country : {Null, Some(France)}, average_temperature : {Null, Some(Dbl(40))}]

InitWeather ==
    /\ df_sas \in SasTables(SasRowsCodes, MaxCodeRows)
    /\ df_sas_clean = NoTable
    /\ empty_cols = {}
    /\ pc_sas = "clean_a"
    /\ df_weather \in SeqsUpTo(WeatherRows, MaxWeather)
    /\ df_cntyl \in SeqsUpTo(CntylRows, MaxCntyl)
    /\ df_weather_dwh = <<>>
    /\ i94cntyl_in_sas = {}
    /\ pc_weather = "prep"
    /\ DateIdle
    /\ DemoIdle
    /\ AirportIdle
    /\ ParserIdle

NextWeather == Cleaner \/ WeatherBuilder

SpecWeather == InitWeather /\ [][NextWeather]_vars

WeatherDone == pc_weather = "done"

\* The codes in the origin or the residence column of the cleaned
\* immigration table, nulls excluded.
CodesInSas ==
    { Value(c) : c \in (Distinct(df_sas_clean, "i94cit") \cup Distinct(df_sas_clean, "i94res"))
                        \ {Null} }

\* C5: every row of the weather dimension has a non-null i94cntyl that
\* occurs in the i94cit or the i94res column of the cleaned immigration table.
C5_RetainedCodeInSas ==
    WeatherDone => \A i \in DOMAIN df_weather_dwh :
                      /\ df_weather_dwh[i].i94cntyl # Null
                      /\ Value(df_weather_dwh[i].i94cntyl) \in CodesInSas

\* C6: every weather row (with a temperature) whose country is a country of
\* the lookup, with a code that occurs in i94cit or i94res, is in the weather
\* dimension with that code.
C6_MatchedRowRetained ==
    WeatherDone =>
      \A i \in DOMAIN df_weather : \A j \in DOMAIN df_cntyl :
         (df_weather[i].country = df_cntyl[j].country /\ df_cntyl[j].i94cntyl \in CodesInSas)
            => \E k \in DOMAIN df_weather_dwh :
                  /\ df_weather_dwh[k].country = df_weather[i].country
                  /\ df_weather_dwh[k].average_temperature = df_weather[i].average_temperature
                  /\ df_weather_dwh[k].i94cntyl = Some(df_cntyl[j].i94cntyl)

\* C7: the left join keeps the cardinality of the weather table: the joined
\* table, and the dimension filtered out of it, never hold more rows than the
\* weather table holds after the rows without a temperature were dropped.
C7_JoinKeepsCardinality ==
    pc_weather \in {"filter", "done"} => Len(df_weather_dwh) <= Len(df_weather)

-----------------------------------------------------------------------------
(* The demographic dimension builder: the state summary and the race      *)
(* distribution                                                            *)

\* DataFrame.drop_duplicates(): the first row of each value, in row order
\* (two missing values count as the same value).
RECURSIVE drop_duplicates(_)
drop_duplicates(s) ==
    IF s = <<>> THEN <<>>
    ELSE LET init == drop_duplicates(SubSeq(s, 1, Len(s) - 1))
             last == s[Len(s)]
         IN  IF \E i \in DOMAIN init : init[i] = last THEN init ELSE Append(init, last)

\* groupby(['state_code']): the keys of the groups; a row with a missing
\* key is in no group.
StateGroups(demo) ==
    { Value(demo[i].state_code) : i \in {j \in DOMAIN demo : demo[j].state_code # Null} }

\* Series.sum() of column c over the rows: a missing value is skipped, and
\* the sum of no value is 0.
RECURSIVE SumColumn(_, _)
SumColumn(rows, c) ==
    IF rows = <<>> THEN 0
    ELSE (IF Head(rows)[c] = Null THEN 0 ELSE Value(Head(rows)[c]))
         + SumColumn(Tail(rows), c)

\* Series.median() of column c over the rows, kept as twice its value (the
\* middle value, or the mean of the two middle values); missing values are
\* skipped, and the median of no value is missing.
MedianColumn(rows, c) ==
    LET held   == SelectSeq(rows, LAMBDA r : r[c] # Null)
        sorted == SortSeq([i \in DOMAIN held |-> Value(held[i][c])], LAMBDA a, b : a < b)
        n      == Len(sorted)
    IN  IF n = 0 THEN Null
        ELSE IF n % 2 = 1 THEN Some(2 * sorted[(n + 1) \div 2])
        ELSE Some(sorted[n \div 2] + sorted[n \div 2 + 1])

\* Series / Series for one row, the quotient kept as the pair of its
\* numerator and denominator; missing when either side is.
Quotient(num, den) ==
    IF num = Null \/ den = Null THEN Null
    ELSE Some([num |-> Value(num), den |-> Value(den)])

\* DataFrame.join of the aggregates onto one row of the deduplicated
\* (state_code, state) table, on its index state_code: the aggregates of the
\* group with that key, or missing values when no group has it; then the
\* four quotients, and the drop of total_population.
StateSummaryRow(pair, demo) ==
    LET matched == pair.state_code # Null /\ Value(pair.state_code) \in StateGroups(demo)
        group   == SelectSeq(demo, LAMBDA r : r.state_code = pair.state_code)
        sum(c)  == IF matched THEN Some(SumColumn(group, c)) ELSE Null
        median(c) == IF matched THEN MedianColumn(group, c) ELSE Null
    IN  [state_code             |-> pair.state_code,
         state                  |-> pair.state,
         male_population        |-> Quotient(sum("male_population"), sum("total_population")),
         female_population      |-> Quotient(sum("female_population"), sum("total_population")),
         number_of_veterans     |-> Quotient(sum("number_of_veterans"), sum("total_population")),
         foreign_born           |-> Quotient(sum("foreign_born"), sum("total_population")),
         median_age             |-> median("median_age"),
         average_household_size |-> median("average_household_size")]

\* Cell 36: df_demo_dwh, one row per distinct (state_code, state) pair of
\* df_demo, in the order of their first rows.
DemoSummary ==
    /\ pc_demo = "summary"
    /\ LET pairs == drop_duplicates([i \in DOMAIN df_demo |->
                                       [state_code |-> df_demo[i].state_code,
                                        state      |-> df_demo[i].state]])
       IN  df_demo_dwh' = [i \in DOMAIN pairs |-> StateSummaryRow(pairs[i], df_demo)]
    /\ pc_demo' = "race"
    /\ UNCHANGED <<df_demo, df_demo_race_dwh, sasVars, dateVars, weatherVars, airportVars,
                   parserVars>>

\* Series.sum() of the count cells: a missing count is skipped.
RECURSIVE SumCounts(_)
SumCounts(rows) ==
    IF rows = <<>> THEN 0
    ELSE (IF Head(rows).count = Null THEN 0 ELSE Value(Head(rows).count))
         + SumCounts(Tail(rows))

\* groupby(['state_code', 'race']): the keys of the groups; a row with a
\* missing key column is in no group.
RaceGroups(demo) ==
    { <<Value(demo[i].state_code), Value(demo[i].race)>> :
        i \in {j \in DOMAIN demo : demo[j].state_code # Null /\ demo[j].race # Null} }

\* groupby(['state_code', 'race'])['count'].agg('sum') for one group
RaceCount(demo, key) ==
    SumCounts(SelectSeq(demo, LAMBDA r : r.state_code = Some(key[1]) /\ r.race = Some(key[2])))

\* groupby(['state_code'])['count'].agg('sum') for one state code
StateCount(demo, sc) == SumCounts(SelectSeq(demo, LAMBDA r : r.state_code = Some(sc)))

\* Cell 39: df_demo_race_dwh, keyed by (state_code, race); the fraction
\* count / count_total is kept as the pair of its numerator and denominator.
DemoRace ==
    /\ pc_demo = "race"
    /\ df_demo_race_dwh' =
          [key \in RaceGroups(df_demo) |->
              [num |-> RaceCount(df_demo, key), den |-> StateCount(df_demo, key[1])]]
    /\ pc_demo' = "done"
    /\ UNCHANGED <<df_demo, df_demo_dwh, sasVars, dateVars, weatherVars, airportVars, parserVars>>

MaxDemoRows == 3

\* Rows that differ in the state code, the race and the count.
DemoRows ==
    [city                   : {Some("A")},
     state                  : {Some("Texas")},
     median_age             : {Some(30)},
     male_population        : {Some(1)},
     female_population      : {Some(1)},
     total_population       : {Some(2)},
     number_of_veterans     : {Some(1)},
     foreign_born           : {Some(0)},
     average_household_size : {Some(2)},
     state_code : {Some("TX"), Some("FL")},
     race       : {Null, Some("White"), Some("Asian")},
     count      : {Null, Some(1), Some(2)}]

\* Two cities; the city-level columns of a row are those of its city,
\* whatever the race of the row.
DemoCities ==
    { [city |-> Some("A"), median_age |-> Some(30), male_population |-> Some(1),
       female_population |-> Some(1), total_population |-> Some(2),
       number_of_veterans |-> Some(1), foreign_born |-> Some(0),
       average_household_size |-> Some(2)],
      [city |-> Some("B"), median_age |-> Some(41), male_population |-> Some(2),
       female_population |-> Some(0), total_population |-> Some(2),
       number_of_veterans |-> Some(0), foreign_born |-> Some(1),
       average_household_size |-> Some(3)] }

\* Rows that differ in the city, the state code, the state name and the race.
DemoCityRows ==
    { [city                   |-> c.city,
       state                  |-> st,
       median_age             |-> c.median_age,
       male_population        |-> c.male_population,
       female_population      |-> c.female_population,
       total_population       |-> c.total_population,
       number_of_veterans     |-> c.number_of_veterans,
       foreign_born           |-> c.foreign_born,
       average_household_size |-> c.average_household_size,
       state_code             |-> sc,
       race                   |-> r,
       count                  |-> Some(1)] :
        c \in DemoCities, st \in {Some("Texas"), Some("Tejas")},
        sc \in {Some("TX"), Some("FL")}, r \in {Some("White"), Some("Asian")} }

InitDemo ==
    /\ df_demo \in SeqsUpTo(DemoRows, MaxDemoRows) \cup SeqsUpTo(DemoCityRows, MaxDemoRows)
    /\ df_demo_dwh = <<>>
    /\ df_demo_race_dwh = <<>>
    /\ pc_demo = "summary"
    /\ SasIdle
    /\ DateIdle
    /\ WeatherIdle
    /\ AirportIdle
    /\ ParserIdle

NextDemo == DemoSummary \/ DemoRace

SpecDemo == InitDemo /\ [][NextDemo]_vars

StateCodes == { Value(df_demo[i].state_code) : i \in {j \in DOMAIN df_demo : df_demo[j].state_code # Null} }

RECURSIVE SumNum(_, _)
SumNum(tbl, keys) ==
    IF keys = {} THEN 0
    ELSE LET k == CHOOSE x \in keys : TRUE
         IN  tbl[k].num + SumNum(tbl, keys \ {k})

\* C10: for each state code whose total count is positive, the fractions of
\* its races sum to 1: they share the state's total as denominator, and
\* their numerators add up to it.
C10_RaceFractionsSumToOne ==
    pc_demo = "done" =>
      \A sc \in StateCodes :
         StateCount(df_demo, sc) > 0 =>
            LET keys == {k \in DOMAIN df_demo_race_dwh : k[1] = sc}
            IN  /\ \A k \in keys : df_demo_race_dwh[k].den = StateCount(df_demo, sc)
                /\ SumNum(df_demo_race_dwh, keys) = StateCount(df_demo, sc)

Summarised == pc_demo \in {"race", "done"}

\* The cities of a state code, each once.
CitiesOf(sc) == { df_demo[i].city : i \in {j \in DOMAIN df_demo : df_demo[j].state_code = Some(sc)} }

\* The value a city of a state code has in column c (that of its first row).
CityValue(sc, city, c) ==
    LET i == CHOOSE j \in DOMAIN df_demo :
                /\ df_demo[j].state_code = Some(sc) /\ df_demo[j].city = city
                /\ \A k \in 1..(j - 1) :
                      ~(df_demo[k].state_code = Some(sc) /\ df_demo[k].city = city)
    IN  Value(df_demo[i][c])

RECURSIVE SumOverCities(_, _, _)
SumOverCities(sc, cities, c) ==
    IF cities = {} THEN 0
    ELSE LET city == CHOOSE x \in cities : TRUE
         IN  CityValue(sc, city, c) + SumOverCities(sc, cities \ {city}, c)

FractionColumns == {"male_population", "female_population", "number_of_veterans", "foreign_born"}

\* C11: in every row of the state summary, each of the four fractions equals
\* the sum of the quantity over the cities of the state, each city once,
\* divided by the sum of total_population over the same cities (the two
\* quotients compared by cross-multiplication).
C11_FractionsCountCitiesOnce ==
    Summarised =>
      \A i \in DOMAIN df_demo_dwh : \A c \in FractionColumns :
         LET sc == Value(df_demo_dwh[i].state_code)
         IN  /\ df_demo_dwh[i][c] # Null
             /\ Value(df_demo_dwh[i][c]).num * SumOverCities(sc, CitiesOf(sc), "total_population")
                   = SumOverCities(sc, CitiesOf(sc), c) * Value(df_demo_dwh[i][c]).den

\* C12: the state summary holds exactly one row per distinct state code of
\* the demographic table.
C12_OneRowPerStateCode ==
    Summarised =>
      /\ \A sc \in StateCodes :
            Cardinality({i \in DOMAIN df_demo_dwh : df_demo_dwh[i].state_code = Some(sc)}) = 1
      /\ Len(df_demo_dwh) = Cardinality(StateCodes)

-----------------------------------------------------------------------------
(* clean_field and the airport dimension builder *)

Whitespace == {" ", "\t", "\n", "\r"}

\* A faulty variant of extract_after_dash: the text after the last '-'.
extract_after_last_dash(cell) ==
    IF cell = Null THEN Null
    ELSE LET s == Value(cell)
             starts == {i \in 1..(Len(s) - 1) : s[i] = "-" /\ s[i + 1] # "-"}
         IN  IF starts = {} THEN Null
             ELSE LET i == CHOOSE x \in starts : \A y \in starts : y <= x
                      ends == {j \in (i + 1)..Len(s) : \A k \in (i + 1)..j : s[k] # "-"}
                      j == CHOOSE x \in ends : \A y \in ends : y <= x
                  IN  Some(SubSeq(s, i + 1, j))

\* Series.str.extract(r'-([^-]+)'): the text between the first '-' that is
\* followed by another character than '-' and the next '-' (or the end);
\* missing when there is no such place.
extract_after_dash(cell) ==
    IF cell = Null THEN Null
    ELSE LET s == Value(cell)
             starts == {i \in 1..(Len(s) - 1) : s[i] = "-" /\ s[i + 1] # "-"}
         IN  IF starts = {} THEN Null
             ELSE LET i == CHOOSE x \in starts : \A y \in starts : x <= y
                      ends == {j \in (i + 1)..Len(s) : \A k \in (i + 1)..j : s[k] # "-"}
                      j == CHOOSE x \in ends : \A y \in ends : y <= x
                  IN  Some(SubSeq(s, i + 1, j))

\* Series.str.strip()
str_strip(cell) ==
    IF cell = Null THEN Null
    ELSE LET s == Value(cell)
             keep == {i \in DOMAIN s : s[i] \notin Whitespace}
         IN  IF keep = {} THEN Some(<<>>)
             ELSE Some(SubSeq(s, CHOOSE x \in keep : \A y \in keep : x <= y,
                                 CHOOSE x \in keep : \A y \in keep : y <= x))

Quote == "'"

\* The end of the longest stretch of characters other than ' that starts at
\* position i of s (i - 1 when s[i] is a ').
RunEnd(s, i) ==
    LET quotes == {j \in i..Len(s) : s[j] = Quote}
    IN  IF quotes = {} THEN Len(s)
        ELSE (CHOOSE j \in quotes : \A k \in quotes : j <= k) - 1

\* The end of the longest stretch of whitespace that starts at position i.
SpaceEnd(s, i) ==
    LET others == {j \in i..Len(s) : s[j] \notin Whitespace}
    IN  IF others = {} THEN Len(s)
        ELSE (CHOOSE j \in others : \A k \in others : j <= k) - 1

Leftmost(starts) == CHOOSE i \in starts : \A k \in starts : i <= k

\* Series.str.extract(r"'([^']+)'"): the text between the first ' that is
\* followed by another character than ' and the next ', which must exist.
extract_quoted(cell) ==
    IF cell = Null THEN Null
    ELSE LET s == Value(cell)
             starts == {i \in 1..(Len(s) - 1) :
                           s[i] = Quote /\ s[i + 1] # Quote /\ RunEnd(s, i + 1) < Len(s)}
         IN  IF starts = {} THEN Null
             ELSE LET i == Leftmost(starts)
                  IN  Some(SubSeq(s, i + 1, RunEnd(s, i + 1)))

\* Series.str.extract(r"'([^']+)"): the text from the first ' that is
\* followed by another character than ' to the next ' or the end.
extract_quote_open(cell) ==
    IF cell = Null THEN Null
    ELSE LET s == Value(cell)
             starts == {i \in 1..(Len(s) - 1) : s[i] = Quote /\ s[i + 1] # Quote}
         IN  IF starts = {} THEN Null
             ELSE LET i == Leftmost(starts)
                  IN  Some(SubSeq(s, i + 1, RunEnd(s, i + 1)))

\* Series.str.extract(r"([^']+)'"): the text from the first character other
\* than ' to the next ', which must exist.
extract_quote_close(cell) ==
    IF cell = Null THEN Null
    ELSE LET s == Value(cell)
             starts == {i \in 1..Len(s) : s[i] # Quote /\ RunEnd(s, i) < Len(s)}
         IN  IF starts = {} THEN Null
             ELSE LET i == Leftmost(starts)
                  IN  Some(SubSeq(s, i, RunEnd(s, i)))

\* Series.str.extract(r"\s+([^']+)"): \s+ takes the whitespace from the
\* first place where a match exists, the group the characters other than '
\* that follow; when none follows, \s+ leaves its last character to the group.
extract_after_space(cell) ==
    IF cell = Null THEN Null
    ELSE LET s == Value(cell)
             follows(i) == SpaceEnd(s, i) < Len(s) /\ s[SpaceEnd(s, i) + 1] # Quote
             starts == {i \in 1..Len(s) :
                           s[i] \in Whitespace /\ (follows(i) \/ SpaceEnd(s, i) > i)}
         IN  IF starts = {} THEN Null
             ELSE LET i == Leftmost(starts)
                      k == SpaceEnd(s, i)
                  IN  IF follows(i) THEN Some(SubSeq(s, k + 1, RunEnd(s, k + 1)))
                      ELSE Some(SubSeq(s, k, k))

\* Series.str.extract(r"([^']+)\n"): from the first character other than '
\* whose stretch of such characters holds a later line feed, the text up to
\* the last line feed of the stretch.
extract_before_newline(cell) ==
    IF cell = Null THEN Null
    ELSE LET s == Value(cell)
             feeds(i) == {j \in (i + 1)..RunEnd(s, i) : s[j] = "\n"}
             starts == {i \in 1..Len(s) : s[i] # Quote /\ feeds(i) # {}}
         IN  IF starts = {} THEN Null
             ELSE LET i == Leftmost(starts)
                      j == CHOOSE x \in feeds(i) : \A y \in feeds(i) : y <= x
                  IN  Some(SubSeq(s, i, j - 1))

RegexAfterDash == "-([^-]+)"

RegexQuoted == "'([^']+)'"

RegexQuoteOpen == "'([^']+)"

RegexQuoteClose == "([^']+)'"

RegexAfterSpace == "\\s+([^']+)"

RegexBeforeNewline == "([^']+)\\n"

\* Series.str.extract(regex), for the patterns the notebook uses
str_extract(cell, regex) ==
    CASE regex = RegexAfterDash     -> extract_after_dash(cell)
      [] regex = RegexQuoted        -> extract_quoted(cell)
      [] regex = RegexQuoteOpen     -> extract_quote_open(cell)
      [] regex = RegexQuoteClose    -> extract_quote_close(cell)
      [] regex = RegexAfterSpace    -> extract_after_space(cell)
      [] regex = RegexBeforeNewline -> extract_before_newline(cell)

\* clean_field(df, col, regex) on one cell of the column
clean_field(cell, regex) == str_upper(str_strip(str_extract(cell, regex)))

\* pd.merge(left=df_port, right=df_airport, left_on='i94port',
\* right_on='ident', how='left') for one port row, and the drop of ident.
MergeIdent(p, right) ==
    LET hits == SelectSeq(right, LAMBDA a : a.ident = p.i94port)
    IN  IF hits = <<>>
        THEN << [i94port |-> p.i94port, port |-> p.port, addr |-> p.addr,
                 type |-> Null, iso_region |-> Null] >>
        ELSE [j \in DOMAIN hits |->
                 [i94port |-> p.i94port, port |-> p.port, addr |-> p.addr,
                  type |-> hits[j].type, iso_region |-> hits[j].iso_region]]

\* Cell 46; the merged table has a fresh index 0..n-1, a row's position.
AirportMerge ==
    /\ pc_airport = "merge"
    /\ df_airport_dwh' = Flatten([i \in DOMAIN df_port |-> MergeIdent(df_port[i], df_airport)])
    /\ pc_airport' = "region"
    /\ UNCHANGED <<df_port, df_airport, df_airport_dwh_outliers,
                   sasVars, dateVars, weatherVars, demoVars, parserVars>>

\* Series != Series, element-wise: a missing value differs from everything,
\* a missing value included.
ne(a, b) == a = Null \/ b = Null \/ a # b

\* A faulty variant of IsOutlier: | for &.
IsOutlierOr(row) == row.type # Null \/ ne(row.iso_region_state, row.addr)

\* The mask of cell 51
IsOutlier(row) == row.type # Null /\ ne(row.iso_region_state, row.addr)

\* Cell 51: clean_field overwrites the iso_region column and returns it;
\* df_airport_dwh_outliers is kept as the index labels of its rows.
AirportRegion ==
    /\ pc_airport = "region"
    /\ LET cleaned == [i \in DOMAIN df_airport_dwh |->
                          clean_field(df_airport_dwh[i].iso_region, RegexAfterDash)]
           tbl == [i \in DOMAIN df_airport_dwh |->
                      [i94port |-> df_airport_dwh[i].i94port,
                       port |-> df_airport_dwh[i].port,
                       addr |-> df_airport_dwh[i].addr,
                       type |-> df_airport_dwh[i].type,
                       iso_region |-> cleaned[i],
                       iso_region_state |-> cleaned[i]]]
       IN  /\ df_airport_dwh' = tbl
           /\ df_airport_dwh_outliers' =
                 SelectSeq([i \in DOMAIN tbl |-> i], LAMBDA i : IsOutlier(tbl[i]))
    /\ pc_airport' = "flag"
    /\ UNCHANGED <<df_port, df_airport, sasVars, dateVars, weatherVars, demoVars, parserVars>>

\* Cell 53: false_join = index.isin(outliers.index.tolist())
AirportFlag ==
    /\ pc_airport = "flag"
    /\ df_airport_dwh' =
          [i \in DOMAIN df_airport_dwh |->
              [i94port |-> df_airport_dwh[i].i94port,
               port |-> df_airport_dwh[i].port,
               addr |-> df_airport_dwh[i].addr,
               type |-> df_airport_dwh[i].type,
               iso_region |-> df_airport_dwh[i].iso_region,
               iso_region_state |-> df_airport_dwh[i].iso_region_state,
               false_join |-> \E k \in DOMAIN df_airport_dwh_outliers :
                                 df_airport_dwh_outliers[k] = i]]
    /\ pc_airport' = "done"
    /\ UNCHANGED <<df_port, df_airport, df_airport_dwh_outliers,
                   sasVars, dateVars, weatherVars, demoVars, parserVars>>

MaxPorts == 2

MaxAirports == 2

\* Port rows as the parser leaves them: texts stripped and in upper case,
\* the state code missing where the line has no comma.
PortRows ==
    [i94port : {Some(<<"A">>), Some(<<"B">>)},
     port    : {Some(<<"P">>)},
     addr    : {Null, Some(<<"F", "L">>)}]

AirportRows ==
    [ident      : {Some(<<"A">>)},
     type       : {Null, Some(<<"s">>)},
     iso_region : {Null,
                   Some(<<"u", "s", "-", "f", "l", " ">>),
                   Some(<<"U", "S", "-", "U", "-", "A">>),
                   Some(<<"U", "S", "F", "L">>)}]

InitAirport ==
    /\ df_port \in SeqsUpTo(PortRows, MaxPorts)
    /\ df_airport \in SeqsUpTo(AirportRows, MaxAirports)
    /\ df_airport_dwh = <<>>
    /\ df_airport_dwh_outliers = <<>>
    /\ pc_airport = "merge"
    /\ SasIdle
    /\ DateIdle
    /\ WeatherIdle
    /\ DemoIdle
    /\ ParserIdle

NextAirport == AirportMerge \/ AirportRegion \/ AirportFlag

SpecAirport == InitAirport /\ [][NextAirport]_vars

\* C8: the airport dimension has exactly as many rows as the port lookup,
\* from the join on.
C8_RowCountEqualsPorts ==
    pc_airport \in {"region", "flag", "done"} => Len(df_airport_dwh) = Len(df_port)

\* C9: in the airport dimension false_join is true exactly for the rows
\* whose type is present and whose iso_region_state is not equal to addr (a
\* missing value is equal to nothing); a row without a type is not flagged;
\* the flag is decided by the row's own fields.
C9_FalseJoinIff ==
    pc_airport = "done" =>
      \A i \in DOMAIN df_airport_dwh :
         LET row == df_airport_dwh[i]
             equal == /\ row.iso_region_state # Null
                      /\ row.addr # Null
                      /\ Value(row.iso_region_state) = Value(row.addr)
         IN  /\ row.false_join = (row.type # Null /\ ~equal)
             /\ row.type = Null => ~row.false_join

\* A matched row that is flagged (region U against FL), a matched one that is
\* not (region FL), and an unmatched one.
C9_Witness ==
    /\ pc_airport = "done"
    /\ \E i, j, k \in DOMAIN df_airport_dwh :
          /\ df_airport_dwh[i].type # Null /\ df_airport_dwh[i].false_join
          /\ df_airport_dwh[i].iso_region_state = Some(<<"U">>)
          /\ df_airport_dwh[j].type # Null /\ ~df_airport_dwh[j].false_join
          /\ df_airport_dwh[j].iso_region_state = Some(<<"F", "L">>)
          /\ df_airport_dwh[k].type = Null

-----------------------------------------------------------------------------
(* The Dictionary Parser: the cell that reads the descriptor file *)

\* str.split(sep, n=1) of one text: the text before and the text after the
\* first sep, or the text alone.
split_once(s, sep) ==
    LET at == {i \in DOMAIN s : s[i] = sep}
    IN  IF at = {} THEN <<s>>
        ELSE LET i == Leftmost(at)
             IN  << SubSeq(s, 1, i - 1), SubSeq(s, i + 1, Len(s)) >>

\* Series.str.split(sep, n=1, expand=True): a frame with one row per element
\* and as many columns as the longest split has parts (one or two); a part a
\* row lacks is missing, and so is every part of a missing element.
str_split(series, sep) ==
    LET parts == [i \in DOMAIN series |->
                     IF series[i] = Null THEN <<>> ELSE split_once(Value(series[i]), sep)]
        width == IF \E i \in DOMAIN parts : Len(parts[i]) = 2 THEN 2 ELSE 1
    IN  [i \in DOMAIN parts |->
            LET row == parts[i]
            IN  [k \in 1..width |-> IF k <= Len(row) THEN Some(row[k]) ELSE Null]]

\* The number of columns of a frame; pd.DataFrame([]) has none.
Width(frame) == IF frame = <<>> THEN 0 ELSE Len(frame[1])

Digits == {"0", "1", "2", "3", "4", "5", "6", "7", "8", "9"}

\* A faulty variant of IsIntLiteral: whitespace around the digits is refused.
IsIntLiteralStrict(text) == text # <<>> /\ \A i \in DOMAIN text : text[i] \in Digits

\* int(text) accepts whitespace around an optional sign and decimal digits.
IsIntLiteral(text) ==
    LET s == Value(str_strip(Some(text)))
        d == IF s # <<>> /\ s[1] \in {"+", "-"} THEN Tail(s) ELSE s
    IN  d # <<>> /\ \A i \in DOMAIN d : d[i] \in Digits

\* astype(int) of one text that int() accepts
astype_int(text) ==
    LET s == Value(str_strip(Some(text)))
    IN  IF s[1] = "-" THEN -ParseInt(Tail(s))
        ELSE IF s[1] = "+" THEN ParseInt(Tail(s)) ELSE ParseInt(s)

\* A faulty variant of Slice: the start index is taken as excluded.
SliceExclusive(s, a, b) ==
    IF a + 1 >= Len(s) THEN <<>> ELSE SubSeq(s, a + 2, IF b < Len(s) THEN b ELSE Len(s))

\* lines[a:b]: the elements with the indices a .. b - 1, counted from 0, cut
\* at the end of the list.
Slice(s, a, b) ==
    IF a >= Len(s) THEN <<>> ELSE SubSeq(s, a + 1, IF b < Len(s) THEN b ELSE Len(s))

\* pd.DataFrame(lines[a:b]): one column 0 holding the lines
LineFrame(a, b) == LET rows == Slice(lines, a, b) IN [i \in DOMAIN rows |-> Some(rows[i])]

CntylFrom == 9
CntylTo == 297
PortFrom == 302
PortTo == 962
ModeFrom == 972
ModeTo == 976
AddrFrom == 981
AddrTo == 1036
VisaFrom == 1046
VisaTo == 1049

\* An exception ends the cell: no later statement runs, and the frame it
\* was building is no lookup table.
ParserRaises(e) ==
    /\ pc_parser' = "raised"
    /\ raised' = e

ParserGoes(next) ==
    /\ pc_parser' = next
    /\ raised' = raised

\* df_cntyl: frame[0] is a KeyError on a frame without columns, two column
\* names a ValueError for a frame of one column, astype(int) a ValueError
\* for a key that is no integer literal.
ParseCntyl ==
    /\ pc_parser = "cntyl"
    /\ LET frame == LineFrame(CntylFrom, CntylTo)
           split == str_split([i \in DOMAIN frame |-> frame[i]], "=")
       IN  IF frame = <<>>
           THEN ParserRaises("KeyError") /\ UNCHANGED df_cntyl
           ELSE IF Width(split) # 2
           THEN ParserRaises("ValueError") /\ UNCHANGED df_cntyl
           ELSE IF \E i \in DOMAIN split : ~IsIntLiteral(Value(split[i][1]))
           THEN ParserRaises("ValueError") /\ UNCHANGED df_cntyl
           ELSE /\ df_cntyl' = [i \in DOMAIN split |->
                                   [i94cntyl |-> astype_int(Value(split[i][1])),
                                    country  |-> clean_field(split[i][2], RegexQuoted)]]
                /\ ParserGoes("port")
    /\ UNCHANGED <<lines, df_mode, df_addr, df_visa, df_weather, df_weather_dwh,
                   i94cntyl_in_sas, pc_weather, sasVars, dateVars, demoVars, airportVars>>

\* df_port: df_port[1] is a KeyError when no line holds '=',
\* df_port_comma_split[1] when no value holds ','.
ParsePort ==
    /\ pc_parser = "port"
    /\ LET frame == LineFrame(PortFrom, PortTo)
           split == str_split([i \in DOMAIN frame |-> frame[i]], "=")
           df_port_comma_split == str_split([i \in DOMAIN split |-> split[i][2]], ",")
       IN  IF frame = <<>> \/ Width(split) # 2
           THEN ParserRaises("KeyError") /\ UNCHANGED df_port
           ELSE IF Width(df_port_comma_split) # 2
           THEN ParserRaises("KeyError") /\ UNCHANGED df_port
           ELSE /\ df_port' = [i \in DOMAIN split |->
                                  [i94port |-> clean_field(split[i][1], RegexQuoted),
                                   port    |-> clean_field(df_port_comma_split[i][1],
                                                           RegexQuoteOpen),
                                   addr    |-> clean_field(df_port_comma_split[i][2],
                                                           RegexQuoteClose)]]
                /\ ParserGoes("mode")
    /\ UNCHANGED <<lines, df_mode, df_addr, df_visa, df_airport, df_airport_dwh,
                   df_airport_dwh_outliers, pc_airport, sasVars, dateVars, weatherVars,
                   demoVars>>

ParseMode ==
    /\ pc_parser = "mode"
    /\ LET frame == LineFrame(ModeFrom, ModeTo)
           split == str_split([i \in DOMAIN frame |-> frame[i]], "=")
       IN  IF frame = <<>>
           THEN ParserRaises("KeyError") /\ UNCHANGED df_mode
           ELSE IF Width(split) # 2
           THEN ParserRaises("ValueError") /\ UNCHANGED df_mode
           ELSE /\ df_mode' = [i \in DOMAIN split |->
                                  [i94mode |-> clean_field(split[i][1], RegexAfterSpace),
                                   mode    |-> clean_field(split[i][2], RegexQuoted)]]
                /\ ParserGoes("addr")
    /\ UNCHANGED <<lines, df_addr, df_visa, sasVars, dateVars, weatherVars, demoVars,
                   airportVars>>

ParseAddr ==
    /\ pc_parser = "addr"
    /\ LET frame == LineFrame(AddrFrom, AddrTo)
           split == str_split([i \in DOMAIN frame |-> frame[i]], "=")
       IN  IF frame = <<>>
           THEN ParserRaises("KeyError") /\ UNCHANGED df_addr
           ELSE IF Width(split) # 2
           THEN ParserRaises("ValueError") /\ UNCHANGED df_addr
           ELSE /\ df_addr' = [i \in DOMAIN split |->
                                  [i94addr |-> clean_field(split[i][1], RegexQuoted),
                                   state   |-> clean_field(split[i][2], RegexQuoted)]]
                /\ ParserGoes("visa")
    /\ UNCHANGED <<lines, df_mode, df_visa, sasVars, dateVars, weatherVars, demoVars,
                   airportVars>>

\* df_visa: the key column i94visa stays the raw text before '='.
ParseVisa ==
    /\ pc_parser = "visa"
    /\ LET frame == LineFrame(VisaFrom, VisaTo)
           split == str_split([i \in DOMAIN frame |-> frame[i]], "=")
       IN  IF frame = <<>>
           THEN ParserRaises("KeyError") /\ UNCHANGED df_visa
           ELSE IF Width(split) # 2
           THEN ParserRaises("ValueError") /\ UNCHANGED df_visa
           ELSE /\ df_visa' = [i \in DOMAIN split |->
                                  [i94visa |-> split[i][1],
                                   visa    |-> clean_field(split[i][2], RegexBeforeNewline)]]
                /\ ParserGoes("done")
    /\ UNCHANGED <<lines, df_mode, df_addr, sasVars, dateVars, weatherVars, demoVars,
                   airportVars>>

Parser == ParseCntyl \/ ParsePort \/ ParseMode \/ ParseAddr \/ ParseVisa

-----------------------------------------------------------------------------
(* Descriptor files *)

MaxShift == 1

\* One line of each table of the descriptor file, and a line of the text
\* between the tables.
CntylLine == <<" ", "5", "8", "2", " ", "=", " ", "'", "f", "r", "'", "\n">>

PortLine == <<"'", "a", "l", "'", "=", "'", "a", "l", ",", " ", "a", "k", " ", "'", "\n">>

ModeLine == <<"\t", "1", " ", "=", " ", "'", "a", "'", "\n">>

AddrLine == <<"'", "a", "l", "'", "=", "'", "a", "'", "\n">>

VisaLine == <<" ", "1", " ", "=", " ", "b", "\n">>

FillerLine == <<";", "\n">>

LineTexts == {CntylLine, PortLine, ModeLine, AddrLine, VisaLine, FillerLine}

\* The line with index k (from 0) of a file whose tables are where the
\* parser expects them.
LineAt(k) ==
    IF k >= CntylFrom /\ k < CntylTo THEN CntylLine
    ELSE IF k >= PortFrom /\ k < PortTo THEN PortLine
    ELSE IF k >= ModeFrom /\ k < ModeTo THEN ModeLine
    ELSE IF k >= AddrFrom /\ k < AddrTo THEN AddrLine
    ELSE IF k >= VisaFrom /\ k < VisaTo THEN VisaLine
    ELSE FillerLine

FileLen == VisaTo + 1

WellFormed == [i \in 1..FileLen |-> LineAt(i - 1)]

\* The file with s lines added at its top (removed, for a negative s).
Shifted(s) == [i \in 1..(FileLen + s) |-> LineAt(i - 1 - s)]

\* The first n lines of the file.
Truncated(n) == [i \in 1..n |-> LineAt(i - 1)]

\* The file with the lines of indices a .. b - 1 replaced by the text x.
Replaced(a, b, x) == [i \in 1..FileLen |-> IF i - 1 >= a /\ i - 1 < b THEN x ELSE LineAt(i - 1)]

Ranges == { <<CntylFrom, CntylTo>>, <<PortFrom, PortTo>>, <<ModeFrom, ModeTo>>,
            <<AddrFrom, AddrTo>>, <<VisaFrom, VisaTo>> }

\* A whole range, and its first line.
Segments == UNION { { r, <<r[1], r[1] + 1>> } : r \in Ranges }

\* File lengths at and next to the ends of the ranges.
CutLengths == UNION { { r[1], r[1] + 1, r[2] } : r \in Ranges } \cup {0}

Files ==
    { Shifted(s) : s \in (-MaxShift)..MaxShift }
    \cup { Truncated(n) : n \in CutLengths }
    \cup { Replaced(g[1], g[2], x) : g \in Segments, x \in LineTexts }

InitParser ==
    /\ lines \in Files
    /\ df_mode = <<>>
    /\ df_addr = <<>>
    /\ df_visa = <<>>
    /\ raised = ""
    /\ pc_parser = "cntyl"
    /\ SasIdle
    /\ DateIdle
    /\ WeatherIdle
    /\ DemoIdle
    /\ AirportIdle

NextParser == Parser

SpecParser == InitParser /\ [][NextParser]_vars

Parsed == pc_parser = "done"


-----------------------------------------------------------------------------
(* Claims about the Dictionary Parser, checked under SpecParser *)

\* The positions in the file of the lines a range takes: the indices
\* a .. b - 1 counted from 0, as far as the file goes.
RangeLines(a, b) == {i \in (a + 1)..b : i <= Len(lines)}

HasChar(text, ch) == \E i \in DOMAIN text : text[i] = ch

\* The text before the first '=' of a line, or the whole line.
KeyOf(text) ==
    IF HasChar(text, "=")
    THEN SubSeq(text, 1, (CHOOSE i \in DOMAIN text :
                             text[i] = "=" /\ \A k \in 1..(i - 1) : text[k] # "=") - 1)
    ELSE text

\* A key is an integer when it is a stretch of digits, a sign before it or
\* not, with nothing but whitespace around it.
IntegerKey(key) ==
    \E a, b \in DOMAIN key :
       /\ a <= b
       /\ \A k \in 1..(a - 1) : key[k] \in Whitespace
       /\ \A k \in (b + 1)..Len(key) : key[k] \in Whitespace
       /\ \/ \A k \in a..b : key[k] \in Digits
          \/ a < b /\ key[a] \in {"+", "-"} /\ \A k \in (a + 1)..b : key[k] \in Digits

\* A line has a ',' in its value when one follows its first '='.
CommaInValue(text) ==
    \E i, j \in DOMAIN text : i < j /\ text[i] = "=" /\ text[j] = ","

NoEquals(a, b) == \A i \in RangeLines(a, b) : ~HasChar(lines[i], "=")

\* The exception each statement group raises on the file, "" for none.
CntylFailure ==
    IF RangeLines(CntylFrom, CntylTo) = {} THEN "KeyError"
    ELSE IF NoEquals(CntylFrom, CntylTo) THEN "ValueError"
    ELSE IF \E i \in RangeLines(CntylFrom, CntylTo) : ~IntegerKey(KeyOf(lines[i]))
         THEN "ValueError"
    ELSE ""

PortFailure ==
    IF RangeLines(PortFrom, PortTo) = {} THEN "KeyError"
    ELSE IF NoEquals(PortFrom, PortTo) THEN "KeyError"
    ELSE IF \A i \in RangeLines(PortFrom, PortTo) : ~CommaInValue(lines[i]) THEN "KeyError"
    ELSE ""

OtherFailure(a, b) ==
    IF RangeLines(a, b) = {} THEN "KeyError"
    ELSE IF NoEquals(a, b) THEN "ValueError"
    ELSE ""

\* The first statement group that raises on the file with its exception,
\* group 6 when none does.
FirstFailure ==
    IF CntylFailure # "" THEN <<1, CntylFailure>>
    ELSE IF PortFailure # "" THEN <<2, PortFailure>>
    ELSE IF OtherFailure(ModeFrom, ModeTo) # "" THEN <<3, OtherFailure(ModeFrom, ModeTo)>>
    ELSE IF OtherFailure(AddrFrom, AddrTo) # "" THEN <<4, OtherFailure(AddrFrom, AddrTo)>>
    ELSE IF OtherFailure(VisaFrom, VisaTo) # "" THEN <<5, OtherFailure(VisaFrom, VisaTo)>>
    ELSE <<6, "">>

\* The number of tables the parser has built.
Built ==
    Cardinality({k \in 1..5 : <<df_cntyl, df_port, df_mode, df_addr, df_visa>>[k] # <<>>})

Stage ==
    CASE pc_parser = "cntyl" -> 1 [] pc_parser = "port" -> 2 [] pc_parser = "mode" -> 3
      [] pc_parser = "addr" -> 4 [] pc_parser = "visa" -> 5 [] pc_parser = "done" -> 6
      [] pc_parser = "raised" -> Built + 1

C14_RowCountIsRangeLength ==
    Parsed =>
      /\ Len(df_cntyl) = 288
      /\ Len(df_port) = 660
      /\ Len(df_mode) = 4
      /\ Len(df_addr) = 55
      /\ Len(df_visa) = 3

\* The key column of row i of a table is that of line a + i of the file.
RowsFollowLines ==
    /\ \A i \in DOMAIN df_cntyl :
          /\ HasChar(lines[CntylFrom + i], "=")
          /\ LET key == KeyOf(lines[CntylFrom + i])
             IN  \E a, b \in DOMAIN key :
                    /\ \A k \in a..b : key[k] \in Digits
                    /\ a = 1 \/ key[a - 1] \notin Digits
                    /\ b = Len(key) \/ key[b + 1] \notin Digits
                    /\ df_cntyl[i].i94cntyl = ParseInt(SubSeq(key, a, b))
    /\ \A i \in DOMAIN df_visa : df_visa[i].i94visa = Some(KeyOf(lines[VisaFrom + i]))

\* C14 as amended: a table the parser has built has one row per line of its
\* range that the file holds, in the order of the lines: the range's length
\* (288, 660, 4, 55, 3) when the file reaches the end of the range, fewer
\* when the file ends inside it.
C14_RowCountIsLinesInRange ==
    /\ df_cntyl # <<>> => Len(df_cntyl) = Cardinality(RangeLines(CntylFrom, CntylTo))
    /\ df_port # <<>> => Len(df_port) = Cardinality(RangeLines(PortFrom, PortTo))
    /\ df_mode # <<>> => Len(df_mode) = Cardinality(RangeLines(ModeFrom, ModeTo))
    /\ df_addr # <<>> => Len(df_addr) = Cardinality(RangeLines(AddrFrom, AddrTo))
    /\ df_visa # <<>> => Len(df_visa) = Cardinality(RangeLines(VisaFrom, VisaTo))
    /\ (Parsed /\ Len(lines) >= VisaTo) =>
          /\ Len(df_cntyl) = 288
          /\ Len(df_port) = 660
          /\ Len(df_mode) = 4
          /\ Len(df_addr) = 55
          /\ Len(df_visa) = 3
    /\ RowsFollowLines

\* The parser has completed on a file that ends after the first visa line.
C14_Witness ==
    /\ Parsed
    /\ Len(lines) = VisaFrom + 1
    /\ Len(df_visa) = 1
    /\ Len(df_addr) = 55


-----------------------------------------------------------------------------
(* Claims about the tables the builders share *)

\* C15 (checked under SpecWeather, whose country lookup is the parser's
\* output): no step of the pipeline changes the country lookup; its rows and
\* field values, missing countries included, stay the ones it started with.
C15_CntylImmutable == [][df_cntyl' = df_cntyl]_vars

\* Positions i..j of a region code hold a part that follows a '-': the
\* characters other than '-' between that '-' and the next one or the end.
IsDashPart(s, i, j) ==
    /\ 2 <= i /\ i <= j /\ j <= Len(s)
    /\ s[i - 1] = "-"
    /\ \A k \in i..j : s[k] # "-"
    /\ j = Len(s) \/ s[j + 1] = "-"

\* The first such part: every '-' before it is followed by another '-'.
IsFirstDashPart(s, i, j) ==
    /\ IsDashPart(s, i, j)
    /\ \A k \in 1..(i - 2) : s[k] = "-" => s[k + 1] = "-"

\* The part after the last '-'.
IsLastDashPart(s, i, j) == IsDashPart(s, i, j) /\ j = Len(s)

StrippedUpper(text) == str_upper(str_strip(Some(text)))

\* C16 as claimed: the step that derives iso_region_state gives every row
\* with a region code the part of the code after its last '-', stripped and
\* in upper case.
C16_AfterLastDash ==
    [][pc_airport = "region" =>
         \A k \in DOMAIN df_airport_dwh :
            LET cell == df_airport_dwh[k].iso_region
            IN  cell # Null =>
                   \A i, j \in DOMAIN Value(cell) :
                      IsLastDashPart(Value(cell), i, j) =>
                         df_airport_dwh'[k].iso_region_state
                            = StrippedUpper(SubSeq(Value(cell), i, j))]_vars

\* C16 as amended: the step gives every row the part of its region code
\* after the first '-' up to the next '-' or the end, stripped and in upper
\* case, and a missing value when the code is missing or has no such part;
\* that is the part after the last '-' when the code has one '-', and 'U',
\* not 'A', for 'US-U-A'.
C16_AfterFirstDash ==
    [][pc_airport = "region" =>
         /\ DOMAIN df_airport_dwh' = DOMAIN df_airport_dwh
         /\ \A k \in DOMAIN df_airport_dwh :
               LET cell  == df_airport_dwh[k].iso_region
                   state == df_airport_dwh'[k].iso_region_state
                   s     == Value(cell)
                   dashes == {i \in DOMAIN s : s[i] = "-"}
               IN  /\ cell = Null => state = Null
                   /\ cell # Null =>
                         /\ \A i, j \in DOMAIN s :
                               IsFirstDashPart(s, i, j) => state = StrippedUpper(SubSeq(s, i, j))
                         /\ (\A i, j \in DOMAIN s : ~IsDashPart(s, i, j)) => state = Null
                         /\ Cardinality(dashes) = 1 =>
                               \A i, j \in DOMAIN s :
                                  IsLastDashPart(s, i, j) => state = StrippedUpper(SubSeq(s, i, j))
                         /\ s = <<"U", "S", "-", "U", "-", "A">> => state = Some(<<"U">>)]_vars

\* The port A is joined to an airport of region 'US-U-A' and to one of
\* region 'us-fl '.
C16_Witness ==
    /\ pc_airport = "done"
    /\ \E j \in DOMAIN df_airport :
          df_airport[j].iso_region = Some(<<"U", "S", "-", "U", "-", "A">>)
    /\ \E k \in DOMAIN df_airport_dwh : df_airport_dwh[k].iso_region_state = Some(<<"U">>)
    /\ \E k \in DOMAIN df_airport_dwh :
          df_airport_dwh[k].iso_region_state = Some(<<"F", "L">>)

\* C17: once iso_region_state is derived, every row of the airport dimension
\* joined to an airport still holds the region code of such an airport of
\* the raw table, and every row holds the i94port, port and addr of a row of
\* the port lookup.
C17_OtherColumnsKept ==
    pc_airport \in {"flag", "done"} =>
      \A k \in DOMAIN df_airport_dwh :
         LET row == df_airport_dwh[k]
         IN  /\ \E i \in DOMAIN df_port :
                   /\ df_port[i].i94port = row.i94port
                   /\ df_port[i].port = row.port
                   /\ df_port[i].addr = row.addr
             /\ (\E j \in DOMAIN df_airport : df_airport[j].ident = row.i94port) =>
                   \E j \in DOMAIN df_airport :
                      /\ df_airport[j].ident = row.i94port
                      /\ df_airport[j].type = row.type
                      /\ df_airport[j].iso_region = row.iso_region

\* The rows of the original table that cell 15 keeps and whose cell in the
\* date column c is missing.
MissingOffsetRows(c) ==
    BagCardinality(BagRestrict(df_sas.rows,
                               {r \in DOMAIN df_sas.rows : Present(r["cicid"]) /\ r[c] = Null}))

MissingDateRows(c) ==
    BagCardinality(BagRestrict(df_sas_clean.rows,
                               {r \in DOMAIN df_sas_clean.rows : r[c] = Null}))

\* C18: the date conversion keeps every row and raises for none: each date
\* cell holds a date or is missing, and it is missing for exactly the rows
\* whose day-offset was missing.
C18_MissingOffsetGivesMissingDate ==
    pc_sas \in {"clean_e", "done"} =>
      /\ BagCardinality(df_sas_clean.rows) = PresentRows(df_sas)
      /\ \A r \in BagToSet(df_sas_clean.rows) : \A c \in DateCols :
            r[c] = Null \/ Value(r[c]).err = ""
      /\ \A c \in DateCols : MissingDateRows(c) = MissingOffsetRows(c)


=============================================================================
